---- MODULE Spec2Model ----
(***************************************************************************)
(* Model of ConsoleUI (src/src/ConsoleUI.cpp, src/include/ConsoleUI.h):    *)
(* the window layout, the bounded output scrollback, the line editor with  *)
(* its command history, and the render/poll loop with its stop flag.       *)
(*                                                                         *)
(* Text is a sequence of character codes (the int values wgetch returns).  *)
(* An output line is the pair of a std::format pattern and its argument.   *)
(* A WINDOW* held by a unique_ptr is a record; held = FALSE is nullptr.    *)
(***************************************************************************)
EXTENDS Integers, Sequences, FiniteSets, TLC

VARIABLES
    pc,                 \* position of ConsoleUI::run
    m_isRunning,        \* std::atomic<bool>
    m_resizeStatus,     \* std::expected<void, ResizeError>
    m_termHeight,
    m_termWidth,
    m_outputHeight,
    m_inputHeight,
    m_outputWin,
    m_outputBorderWin,
    m_inputWin,
    m_inputBorderWin,
    m_outputBuffer,
    m_scrollOffset,
    m_inputBuffer,
    m_cursorPos,
    m_commandHistory,
    m_historyIndex,
    alert,              \* the last handleInput call rang beep()
    appendCount,        \* lines appended by the scrollback driver since the last clear
    drawn,              \* the scrollback lines the last draw pass wrote to the screen
    painted,            \* what the last drawLayout painted since the last layout computation began
    flushes,            \* refresh()/doupdate() calls of the current loop iteration
    writes,             \* writes to m_outputBuffer/m_scrollOffset by the last step of the loop
    lastStore,          \* who stored m_isRunning last: the constructor, run(), or stop() called
                        \* for the exit command or by the signal handler
    cpc,                \* position of ConsoleUI::create
    tty,                \* mode of the terminal: as the shell left it, or raw/no-echo
    created,            \* what create() returned
    failures,           \* the startup steps that failed
    handlers,           \* SIGINT/SIGTERM are routed to handleSignal
    g_consoleUIInstance, \* std::atomic<ConsoleUI*>: address of the registered instance
    instances,          \* lifetime of the ConsoleUI object at each address
    restores            \* runs of the terminal restore in cleanupNcurses

layoutVars == <<m_resizeStatus, m_termHeight, m_termWidth, m_outputHeight,
                m_inputHeight, m_outputWin, m_outputBorderWin, m_inputWin,
                m_inputBorderWin>>
editorVars == <<m_inputBuffer, m_cursorPos, m_commandHistory, m_historyIndex>>
scrollVars == <<m_outputBuffer, m_scrollOffset>>
screenVars == <<drawn, painted, flushes>>
runVars == <<m_isRunning, lastStore>>
lifeVars == <<cpc, tty, created, failures, handlers, g_consoleUIInstance, instances, restores>>
vars == <<pc, runVars, layoutVars, editorVars, scrollVars, alert, appendCount,
          screenVars, writes, lifeVars>>

----------------------------------------------------------------------------
(* Program constants *)

m_minHeight == 10
m_minWidth == 40
InputHeightDefault == 3
OutputHeightDefault == 20
MAX_BUFFER_SIZE == 1000

\* curses key codes and the ERR result of a non-blocking read with no input
ERR == -1
KEY_DOWN == 258
KEY_UP == 259
KEY_LEFT == 260
KEY_RIGHT == 261
KEY_HOME == 262
KEY_BACKSPACE == 263
KEY_DC == 330
KEY_NPAGE == 338
KEY_PPAGE == 339
KEY_ENTER == 343
KEY_END == 360
KEY_RESIZE == 410
KEY_F1 == 265           \* a key no case of the switch names

\* std::expected<void, ResizeError>: has_value() or the error
StatusOk == "value"
TERMINAL_TOO_SMALL == "TERMINAL_TOO_SMALL"

\* command literals of processCommand, as character codes
CmdExit == <<101, 120, 105, 116>>
CmdClear == <<99, 108, 101, 97, 114>>
CmdHelp == <<104, 101, 108, 112>>

\* std::format(pattern, argument) and a literal message
Format(pattern, arg) == [fmt |-> pattern, arg |-> arg]
Literal(text) == [fmt |-> text, arg |-> <<>>]

MsgReady == Literal("Console UI Ready. Type 'help' or 'exit'.")
MsgResized == Literal("Terminal resized to usable dimensions.")
MsgHelp == Literal("Commands: exit, clear, help. Scroll: PgUp/PgDn")

Max(a, b) == IF a > b THEN a ELSE b
Min(a, b) == IF a < b THEN a ELSE b

----------------------------------------------------------------------------
(* Bounds of the explored inputs *)

MaxLines == 6           \* render loop: inputs are explored while the scrollback is this short
MaxHistory == 2         \* render loop: ... and History is this short
EditorMaxLines == 7     \* line editor: the same two bounds
EditorMaxHistory == 3
LayoutMaxLines == 2     \* layout: the same bound on the scrollback
MaxAppends == 1002      \* scrollback: appends explored
MaxSliceLines == 10     \* visible slice: buffer sizes, surface heights and offsets drawn
MaxSliceHeight == 5
MaxSliceOffset == 10
MaxInstances == 3       \* lifecycle: addresses at which the caller holds instances
ScrollNear == 7         \* scrolling: appends explored from an empty and from a nearly full scrollback
ScrollMaxBack == 12     \* scrolling: page-up is explored up to this ScrollOffset
TypingMaxLen == 2       \* free typing: length of the lines typed
TypingMaxLines == 5     \* free typing: the two bounds of the line editor
TypingMaxHistory == 2

\* outcome of the four newwin calls of one setupWindows: TRUE = allocated
AllOk == [i \in 1..4 |-> TRUE]

\* the render loop specification: terminal sizes (height, width), allocation
\* outcomes and the lines the user types
Dims == {<<5, 20>>, <<10, 40>>, <<11, 40>>}
Allocs == {AllOk, [AllOk EXCEPT ![3] = FALSE]}
Words == {CmdExit, <<97>>}

\* the layout specification: resizes only, every allocation outcome
LayoutDims == {<<5, 20>>, <<9, 80>>, <<24, 39>>, <<10, 40>>, <<24, 80>>}
LayoutAllocs == [1..4 -> BOOLEAN]

\* the line editor specification: a terminal that stays usable
EditorDims == {<<10, 40>>}
EditorWords == {CmdExit, CmdClear, <<97>>, <<98>>}

\* the scrolling specification: two usable terminal sizes, the clear command
ScrollDims == {<<10, 40>>, <<11, 40>>}
ScrollWords == {CmdClear}
ScrollKeys == {KEY_ENTER, 10, 13, KEY_UP, KEY_PPAGE, KEY_NPAGE}

\* the free typing specification: every line over two letters
TypingAlphabet == {97, 98}
TypingWords == UNION {[1..n -> TypingAlphabet] : n \in 0..TypingMaxLen}

Prefixes(W) == UNION {{SubSeq(w, 1, k) : k \in 0..Len(w)} : w \in W}

----------------------------------------------------------------------------
(* Drawing surfaces *)

NullWin == [held |-> FALSE, h |-> 0, w |-> 0, nodelay |-> FALSE]

\* newwin: a new window reads input in blocking mode until nodelay() is called on it
newwin(nlines, ncols, ok) ==
    IF ok THEN [held |-> TRUE, h |-> nlines, w |-> ncols, nodelay |-> FALSE]
    ELSE NullWin

\* stdscr after create(): nodelay(stdscr, TRUE)
stdscr == [held |-> TRUE, h |-> 0, w |-> 0, nodelay |-> TRUE]

----------------------------------------------------------------------------
(* Instances and the signal registration *)

NullPtr == -1

\* addresses of ConsoleUI objects: 0 is the local `ui` of create(), 1 the
\* object inside the value create() returns, the others belong to the caller
Addr == 0..MaxInstances

\* InitError
NCURSES_INIT_FAILED == "NCURSES_INIT_FAILED"
COLOR_SUPPORT_MISSING == "COLOR_SUPPORT_MISSING"
CANNOT_CHANGE_COLOR == "CANNOT_CHANGE_COLOR"
InitErrors == {NCURSES_INIT_FAILED, COLOR_SUPPORT_MISSING, CANNOT_CHANGE_COLOR}

\* g_consoleUIInstance after compare_exchange_strong(expected, desired)
compare_exchange_strong(g, expected, desired) == IF g = expected THEN desired ELSE g

\* g_consoleUIInstance after the move constructor of the object at `this`
moveConstructor(g, this, other) == compare_exchange_strong(g, other, this)

\* g_consoleUIInstance after the move assignment this = std::move(other)
moveAssignment(g, this, other) ==
    IF this = other THEN g
    ELSE IF g = other THEN this
    ELSE compare_exchange_strong(g, this, NullPtr)

\* the destructor of the object at `this`: the pointer it leaves and whether
\* it calls cleanupNcurses
destructor(g, this) ==
    [g |-> compare_exchange_strong(g, this, NullPtr), cleanup |-> g = this]

\* create() has returned an instance: it lives at address 1 and is the
\* registered one, the local of create() is gone, the terminal is in raw mode
Returned ==
    /\ cpc = "done"
    /\ tty = "raw"
    /\ created = "instance"
    /\ failures = {}
    /\ handlers = TRUE
    /\ g_consoleUIInstance = 1
    /\ instances = [a \in Addr |-> IF a = 0 THEN "dead" ELSE IF a = 1 THEN "live" ELSE "unborn"]
    /\ restores = 0

----------------------------------------------------------------------------
(* Layout Manager *)

\* a terminal that cannot hold the layout, mistaken to need both sides too small
BelowMinimum_BothSides(height, width) == height < m_minHeight /\ width < m_minWidth

\* the size test of setupWindows
BelowMinimum(height, width) == height < m_minHeight \/ width < m_minWidth

\* setupWindows: the fields it leaves behind and the value it returns.
\* outH, inH are m_outputHeight and m_inputHeight at the call; ok[i] tells
\* whether the i-th newwin call succeeds.
setupWindows(outH, inH, height, width, ok) ==
    LET outputHeight == height - inH
        ob == newwin(outputHeight, width, ok[1])
        ib == newwin(inH, width, ok[2])
        outputInnerH == IF outputHeight > 2 THEN outputHeight - 2 ELSE 0
        outputInnerW == IF width > 2 THEN width - 2 ELSE 0
        inputInnerH == IF inH > 2 THEN inH - 2 ELSE 0
        inputInnerW == IF width > 2 THEN width - 2 ELSE 0
        ow == newwin(outputInnerH, outputInnerW, ok[3])
        iw == newwin(inputInnerH, inputInnerW, ok[4])
    IN  IF BelowMinimum(height, width)
        THEN [result |-> TERMINAL_TOO_SMALL, outputHeight |-> outH,
              outputBorderWin |-> NullWin, inputBorderWin |-> NullWin,
              outputWin |-> NullWin, inputWin |-> NullWin]
        ELSE IF ~ob.held \/ ~ib.held
        THEN [result |-> TERMINAL_TOO_SMALL, outputHeight |-> outputHeight,
              outputBorderWin |-> ob, inputBorderWin |-> ib,
              outputWin |-> NullWin, inputWin |-> NullWin]
        ELSE IF ~ow.held \/ ~iw.held
        THEN [result |-> TERMINAL_TOO_SMALL, outputHeight |-> outputHeight,
              outputBorderWin |-> ob, inputBorderWin |-> ib,
              outputWin |-> ow, inputWin |-> iw]
        ELSE [result |-> StatusOk, outputHeight |-> outputHeight,
              outputBorderWin |-> ob, inputBorderWin |-> ib,
              outputWin |-> ow, inputWin |-> iw]

Ready == m_resizeStatus = StatusOk
TooSmall == m_resizeStatus # StatusOk

----------------------------------------------------------------------------
(* Output Scrollback *)

\* a write to a field of the scrollback, inside or outside a
\* std::lock_guard on g_outputMutex
Locked(field) == [field |-> field, locked |-> TRUE]
Unlocked(field) == [field |-> field, locked |-> FALSE]

\* addOutputMessage mistaken to erase from the back
addOutputMessage_KeepsOldest(buffer, message) ==
    LET pushed == Append(buffer, message)
    IN  IF Len(pushed) > MAX_BUFFER_SIZE
        THEN SubSeq(pushed, 1, MAX_BUFFER_SIZE)
        ELSE pushed

\* addOutputMessage: push_back, then erase from the front down to the cap
addOutputMessage(buffer, message) ==
    LET pushed == Append(buffer, message)
    IN  IF Len(pushed) > MAX_BUFFER_SIZE
        THEN SubSeq(pushed, Len(pushed) - MAX_BUFFER_SIZE + 1, Len(pushed))
        ELSE pushed

\* processCommand on the buffer left by the echo line: what it leaves in
\* m_outputBuffer, m_scrollOffset and m_isRunning
processCommand(buffer, command) ==
    IF command = CmdExit
    THEN [buffer |-> buffer, scrollOffset |-> m_scrollOffset, isRunning |-> FALSE,
          writes |-> {}]
    ELSE IF command = CmdClear
    THEN [buffer |-> <<>>, scrollOffset |-> 0, isRunning |-> m_isRunning,
          writes |-> {Locked("m_outputBuffer"), Locked("m_scrollOffset")}]
    ELSE IF command = CmdHelp
    THEN [buffer |-> addOutputMessage(buffer, MsgHelp),
          scrollOffset |-> m_scrollOffset, isRunning |-> m_isRunning,
          writes |-> {Locked("m_outputBuffer")}]
    ELSE [buffer |-> addOutputMessage(buffer, Format("Unknown: '{}'", command)),
          scrollOffset |-> m_scrollOffset, isRunning |-> m_isRunning,
          writes |-> {Locked("m_outputBuffer")}]

----------------------------------------------------------------------------
(* Drawing *)

firstLineIdx(bufferSize, winHeight, scrollOffset) ==
    Max(0, bufferSize - winHeight - scrollOffset)

\* the end of the slice mistaken to ignore the scroll offset
lastLineIdx_Newest(bufferSize, scrollOffset) == bufferSize

lastLineIdx(bufferSize, scrollOffset) == Max(0, bufferSize - scrollOffset)

\* the buffer indices (0-based) the loop of drawOutputWindow reads, in order:
\* i from firstLineIdx while i < lastLineIdx and i - firstLineIdx < winHeight
readIndices(bufferSize, winHeight, scrollOffset) ==
    LET first == firstLineIdx(bufferSize, winHeight, scrollOffset)
        last == lastLineIdx(bufferSize, scrollOffset)
        n == Max(0, Min(last - first, winHeight))
    IN  [k \in 1..n |-> first + k - 1]

\* drawOutputWindow: the lines it leaves on the output surface (each one cut
\* to the width of the surface on the screen)
drawOutputWindow(win, buffer, scrollOffset) ==
    IF ~win.held THEN drawn
    ELSE IF win.h <= 0 \/ win.w <= 0 THEN <<>>       \* werase, then return
    ELSE LET idx == readIndices(Len(buffer), win.h, scrollOffset)
         IN  [k \in 1..Len(idx) |-> buffer[idx[k] + 1]]

\* drawLayout with m_resizeStatus = status: what it paints, its refresh()
\* calls, and the lines on the output surface afterwards
drawLayout(status, win, buffer, scrollOffset) ==
    IF status # StatusOk
    THEN [painted |-> "diagnostic", flushes |-> 1, drawn |-> <<>>]
    ELSE [painted |-> "layout", flushes |-> 0,
          drawn |-> drawOutputWindow(win, buffer, scrollOffset)]

\* the screen side of setupWindows returning r while m_resizeStatus = status:
\* clear/refresh on entry and, past the allocations, drawLayout and doupdate
setupWindowsScreen(status, r, buffer, scrollOffset) ==
    IF r.result = StatusOk
    THEN LET d == drawLayout(status, r.outputWin, buffer, scrollOffset)
         IN  [painted |-> d.painted, flushes |-> 1 + d.flushes + 1, drawn |-> d.drawn]
    ELSE [painted |-> "none", flushes |-> 1, drawn |-> <<>>]

----------------------------------------------------------------------------
(* handleResize *)

\* the notice test mistaken to ignore the state before the resize
NoticeDue_WheneverReady(wasTooSmall, status) == status = StatusOk

\* the test of handleResize for appending the "resized" notice
NoticeDue(wasTooSmall, status) == wasTooSmall /\ status = StatusOk

handleResize(h, w, ok) ==
    LET wasTooSmall == TooSmall
        r == setupWindows(m_outputHeight, m_inputHeight, h, w, ok)
        \* drawLayout inside setupWindows still sees the status of before
        screen == setupWindowsScreen(m_resizeStatus, r, m_outputBuffer, m_scrollOffset)
    IN  /\ m_termHeight' = h
        /\ m_termWidth' = w
        /\ m_outputHeight' = r.outputHeight
        /\ m_outputBorderWin' = r.outputBorderWin
        /\ m_inputBorderWin' = r.inputBorderWin
        /\ m_outputWin' = r.outputWin
        /\ m_inputWin' = r.inputWin
        /\ m_resizeStatus' = r.result
        /\ m_outputBuffer' = IF NoticeDue(wasTooSmall, r.result)
                             THEN addOutputMessage(m_outputBuffer, MsgResized)
                             ELSE m_outputBuffer
        /\ writes' = IF NoticeDue(wasTooSmall, r.result)
                     THEN {Locked("m_outputBuffer")} ELSE {}
        /\ painted' = screen.painted
        /\ drawn' = screen.drawn
        /\ flushes' = flushes + screen.flushes + 2      \* refresh(); doupdate();
        /\ alert' = FALSE
        /\ UNCHANGED <<m_inputHeight, m_scrollOffset, editorVars, runVars>>

----------------------------------------------------------------------------
(* Line Editor: the cases of the switch in handleInput *)

\* insert mistaken to put the character at the end of the line
Insert_AtEnd(s, pos, c) == Append(s, c)

Erase(s, pos) == SubSeq(s, 1, pos) \o SubSeq(s, pos + 2, Len(s))
Insert(s, pos, c) == SubSeq(s, 1, pos) \o <<c>> \o SubSeq(s, pos + 1, Len(s))

KeyBackspace ==
    /\ IF m_cursorPos > 0
       THEN /\ m_inputBuffer' = Erase(m_inputBuffer, m_cursorPos - 1)
            /\ m_cursorPos' = m_cursorPos - 1
       ELSE UNCHANGED <<m_inputBuffer, m_cursorPos>>
    /\ alert' = FALSE
    /\ writes' = {}
    /\ UNCHANGED <<screenVars, layoutVars, scrollVars, m_commandHistory, m_historyIndex, runVars>>

KeyDelete ==
    /\ IF m_cursorPos < Len(m_inputBuffer)
       THEN m_inputBuffer' = Erase(m_inputBuffer, m_cursorPos)
       ELSE UNCHANGED m_inputBuffer
    /\ alert' = FALSE
    /\ writes' = {}
    /\ UNCHANGED <<screenVars, layoutVars, scrollVars, m_cursorPos, m_commandHistory,
                   m_historyIndex, runVars>>

KeyLeft ==
    /\ m_cursorPos' = IF m_cursorPos > 0 THEN m_cursorPos - 1 ELSE m_cursorPos
    /\ alert' = FALSE
    /\ writes' = {}
    /\ UNCHANGED <<screenVars, layoutVars, scrollVars, m_inputBuffer, m_commandHistory,
                   m_historyIndex, runVars>>

KeyRight ==
    /\ m_cursorPos' = IF m_cursorPos < Len(m_inputBuffer)
                      THEN m_cursorPos + 1 ELSE m_cursorPos
    /\ alert' = FALSE
    /\ writes' = {}
    /\ UNCHANGED <<screenVars, layoutVars, scrollVars, m_inputBuffer, m_commandHistory,
                   m_historyIndex, runVars>>

KeyHome ==
    /\ m_cursorPos' = 0
    /\ alert' = FALSE
    /\ writes' = {}
    /\ UNCHANGED <<screenVars, layoutVars, scrollVars, m_inputBuffer, m_commandHistory,
                   m_historyIndex, runVars>>

KeyEnd ==
    /\ m_cursorPos' = Len(m_inputBuffer)
    /\ alert' = FALSE
    /\ writes' = {}
    /\ UNCHANGED <<screenVars, layoutVars, scrollVars, m_inputBuffer, m_commandHistory,
                   m_historyIndex, runVars>>

\* m_historyIndex is the 0-based index of the C++ vector
HistoryAt(i) == m_commandHistory[i + 1]

\* KeyUp mistaken to wrap from the oldest entry to the newest
KeyUp_Wraps ==
    /\ IF m_commandHistory # <<>>
       THEN LET idx == IF m_historyIndex <= 0 THEN Len(m_commandHistory) - 1
                       ELSE m_historyIndex - 1
            IN  /\ m_historyIndex' = idx
                /\ m_inputBuffer' = m_commandHistory[idx + 1]
                /\ m_cursorPos' = Len(m_commandHistory[idx + 1])
       ELSE UNCHANGED <<m_historyIndex, m_inputBuffer, m_cursorPos>>
    /\ alert' = FALSE
    /\ writes' = {}
    /\ UNCHANGED <<screenVars, layoutVars, scrollVars, m_commandHistory, runVars>>

KeyUp ==
    /\ IF m_commandHistory # <<>>
       THEN LET idx == IF m_historyIndex = -1 THEN Len(m_commandHistory) - 1
                       ELSE IF m_historyIndex > 0 THEN m_historyIndex - 1
                       ELSE m_historyIndex
            IN  /\ m_historyIndex' = idx
                /\ m_inputBuffer' = HistoryAt(idx)
                /\ m_cursorPos' = Len(HistoryAt(idx))
       ELSE UNCHANGED <<m_historyIndex, m_inputBuffer, m_cursorPos>>
    /\ alert' = FALSE
    /\ writes' = {}
    /\ UNCHANGED <<screenVars, layoutVars, scrollVars, m_commandHistory, runVars>>

KeyDown ==
    /\ IF m_historyIndex # -1
       THEN IF m_historyIndex < Len(m_commandHistory) - 1
            THEN /\ m_historyIndex' = m_historyIndex + 1
                 /\ m_inputBuffer' = HistoryAt(m_historyIndex + 1)
                 /\ m_cursorPos' = Len(HistoryAt(m_historyIndex + 1))
            ELSE /\ m_historyIndex' = -1
                 /\ m_inputBuffer' = <<>>
                 /\ m_cursorPos' = 0
       ELSE UNCHANGED <<m_historyIndex, m_inputBuffer, m_cursorPos>>
    /\ alert' = FALSE
    /\ writes' = {}
    /\ UNCHANGED <<screenVars, layoutVars, scrollVars, m_commandHistory, runVars>>

\* the History push mistaken to record a repeated line
PushHistory_KeepsRepeats(history, line) ==
    IF line # CmdExit THEN Append(history, line) ELSE history

\* the History push of the enter case
PushHistory(history, line) ==
    IF line # CmdExit /\ (history = <<>> \/ history[Len(history)] # line)
    THEN Append(history, line)
    ELSE history

\* the enter case mistaken to submit an empty line too
KeyEnter_SubmitsEmpty ==
    IF Ready
    THEN LET echoed == addOutputMessage(m_outputBuffer, Format("> {}", m_inputBuffer))
             done == processCommand(echoed, m_inputBuffer)
         IN  /\ m_outputBuffer' = done.buffer
             /\ m_isRunning' = done.isRunning
             /\ lastStore' = IF m_inputBuffer = CmdExit THEN "exit" ELSE lastStore
             /\ m_commandHistory' = PushHistory(m_commandHistory, m_inputBuffer)
             /\ m_inputBuffer' = <<>>
             /\ m_cursorPos' = 0
             /\ m_historyIndex' = -1
             /\ m_scrollOffset' = 0
             /\ writes' = {Locked("m_outputBuffer")} \cup done.writes
                              \cup {Unlocked("m_scrollOffset")}
             /\ alert' = FALSE
             /\ UNCHANGED <<screenVars, layoutVars>>
    ELSE /\ alert' = TooSmall
         /\ writes' = {}
         /\ UNCHANGED <<screenVars, layoutVars, scrollVars, editorVars, runVars>>

KeyEnter ==
    IF Ready /\ m_inputBuffer # <<>>
    THEN LET echoed == addOutputMessage(m_outputBuffer, Format("> {}", m_inputBuffer))
             done == processCommand(echoed, m_inputBuffer)
         IN  /\ m_outputBuffer' = done.buffer
             /\ m_isRunning' = done.isRunning
             /\ lastStore' = IF m_inputBuffer = CmdExit THEN "exit" ELSE lastStore
             /\ m_commandHistory' = PushHistory(m_commandHistory, m_inputBuffer)
             /\ m_inputBuffer' = <<>>
             /\ m_cursorPos' = 0
             /\ m_historyIndex' = -1
             /\ m_scrollOffset' = 0     \* overwrites what processCommand left
             \* the echo and the command write under the lock of
             \* addOutputMessage/processCommand; line 292 takes no lock
             /\ writes' = {Locked("m_outputBuffer")} \cup done.writes
                              \cup {Unlocked("m_scrollOffset")}
             /\ alert' = FALSE
             /\ UNCHANGED <<screenVars, layoutVars>>
    ELSE /\ alert' = TooSmall
         /\ writes' = {}
         /\ UNCHANGED <<screenVars, layoutVars, scrollVars, editorVars, runVars>>

\* the clamp of page-up mistaken to have no floor at 0
MaxScroll_NoFloor(bufferSize, winHeight) == bufferSize - winHeight

\* the most ScrollOffset a page-up may reach
MaxScroll(bufferSize, winHeight) == Max(0, bufferSize - winHeight)

KeyPageUp ==
    /\ IF m_outputWin.held /\ Ready
       THEN /\ m_scrollOffset' = Min(MaxScroll(Len(m_outputBuffer), m_outputWin.h),
                                     m_scrollOffset + m_outputWin.h)
            /\ writes' = {Locked("m_scrollOffset")}       \* lock_guard at line 298
       ELSE /\ UNCHANGED m_scrollOffset
            /\ writes' = {}
    /\ alert' = FALSE
    /\ UNCHANGED <<screenVars, layoutVars, editorVars, m_outputBuffer, runVars>>

KeyPageDown ==
    /\ IF m_outputWin.held /\ Ready
       THEN /\ m_scrollOffset' = IF m_scrollOffset - m_outputWin.h < 0 THEN 0
                                 ELSE m_scrollOffset - m_outputWin.h
            /\ writes' = {Unlocked("m_scrollOffset")}     \* no lock_guard in this case
       ELSE /\ UNCHANGED m_scrollOffset
            /\ writes' = {}
    /\ alert' = FALSE
    /\ UNCHANGED <<screenVars, layoutVars, editorVars, m_outputBuffer, runVars>>

KeyDefault(ch) ==
    /\ IF Ready /\ ch >= 32 /\ ch <= 126
       THEN /\ m_inputBuffer' = Insert(m_inputBuffer, m_cursorPos, ch)
            /\ m_cursorPos' = m_cursorPos + 1
       ELSE UNCHANGED <<m_inputBuffer, m_cursorPos>>
    /\ alert' = FALSE
    /\ writes' = {}
    /\ UNCHANGED <<screenVars, layoutVars, scrollVars, m_commandHistory, m_historyIndex, runVars>>

\* the window wgetch reads from
inputSource == IF m_inputWin.held THEN m_inputWin ELSE stdscr

\* the guard mistaken to let every key through
Rejected_Never(ch) == FALSE

\* the guard of handleInput that rejects input while the terminal is too small
Rejected(ch) == TooSmall /\ ch # KEY_RESIZE /\ ch # ERR

\* handleInput with ch the value wgetch returned; h, w, ok are what a resize
\* finds: the size of stdscr and the outcome of the allocations
handleInput(ch, h, w, ok) ==
    IF Rejected(ch)
    THEN /\ alert' = TRUE
         /\ writes' = {}
         /\ UNCHANGED <<screenVars, layoutVars, scrollVars, editorVars, runVars>>
    ELSE IF ch = ERR
    THEN /\ alert' = FALSE
         /\ writes' = {}
         /\ UNCHANGED <<screenVars, layoutVars, scrollVars, editorVars, runVars>>
    ELSE CASE ch = KEY_RESIZE -> handleResize(h, w, ok)
           [] ch \in {KEY_BACKSPACE, 127, 8} -> KeyBackspace
           [] ch = KEY_DC -> KeyDelete
           [] ch = KEY_LEFT -> KeyLeft
           [] ch = KEY_RIGHT -> KeyRight
           [] ch = KEY_HOME -> KeyHome
           [] ch = KEY_END -> KeyEnd
           [] ch = KEY_UP -> KeyUp
           [] ch = KEY_DOWN -> KeyDown
           [] ch \in {KEY_ENTER, 10, 13} -> KeyEnter
           [] ch = KEY_PPAGE -> KeyPageUp
           [] ch = KEY_NPAGE -> KeyPageDown
           [] OTHER -> KeyDefault(ch)

----------------------------------------------------------------------------
(* Render loop *)

\* the continuation test mistaken to ignore the flag
LoopCondition_Always == TRUE

\* the continuation test of the while loop
LoopCondition == m_isRunning

RunStart ==
    /\ pc = "start"
    /\ m_isRunning' = TRUE
    /\ lastStore' = "run"
    /\ m_outputBuffer' = IF Ready THEN addOutputMessage(m_outputBuffer, MsgReady)
                         ELSE m_outputBuffer
    /\ writes' = IF Ready THEN {Locked("m_outputBuffer")} ELSE {}
    /\ pc' = "test"
    /\ UNCHANGED <<screenVars, layoutVars, editorVars, m_scrollOffset, alert, appendCount,
                   lifeVars>>

LoopTest ==
    /\ pc = "test"
    /\ pc' = IF LoopCondition THEN "poll" ELSE "done"
    /\ writes' = {}
    /\ UNCHANGED <<screenVars, runVars, layoutVars, editorVars, scrollVars, alert,
                   appendCount,
                   lifeVars>>

\* what the explored inputs leave behind stays within the bounds
WithinBounds(W, maxLines, maxHistory) ==
    /\ Len(m_outputBuffer') <= maxLines
    /\ Len(m_commandHistory') <= maxHistory
    /\ m_inputBuffer' \in Prefixes(W)

\* a line is submitted only when it is one of the words
SubmitsWord(ch, W) ==
    (ch \in {KEY_ENTER, 10, 13} /\ Ready /\ m_inputBuffer # <<>>) => m_inputBuffer \in W

Chars(W) == UNION {{w[i] : i \in 1..Len(w)} : w \in W}

EditKeys == {KEY_BACKSPACE, 127, 8, KEY_DC, KEY_LEFT, KEY_RIGHT, KEY_HOME, KEY_END,
             KEY_UP, KEY_DOWN, KEY_ENTER, 10, 13, KEY_PPAGE, KEY_NPAGE, KEY_F1}

\* wgetch returns a pending key (also after waiting for it in blocking mode):
\* one of the keys K, typed on the way to one of the words W
PollKeyOf(K, W, maxLines, maxHistory) ==
    /\ pc \in {"poll", "wait"}
    /\ \E ch \in K \cup Chars(W) :
          /\ SubmitsWord(ch, W)
          /\ handleInput(ch, m_termHeight, m_termWidth, AllOk)
          /\ WithinBounds(W, maxLines, maxHistory)
    /\ pc' = "draw"
    /\ UNCHANGED <<appendCount, lifeVars>>

\* wgetch returns KEY_RESIZE: the terminal now has a size of D, and the
\* allocations of the new layout end as one of A
PollResizeOf(D, A, W, maxLines, maxHistory) ==
    /\ pc \in {"poll", "wait"}
    /\ \E d \in D, ok \in A :
          /\ handleInput(KEY_RESIZE, d[1], d[2], ok)
          /\ WithinBounds(W, maxLines, maxHistory)
    /\ pc' = "draw"
    /\ UNCHANGED <<appendCount, lifeVars>>

PollKey == PollKeyOf(EditKeys, Words, MaxLines, MaxHistory)
PollResize == PollResizeOf(Dims, Allocs, Words, MaxLines, MaxHistory)

LayoutPollResize == PollResizeOf(LayoutDims, LayoutAllocs, {<<>>}, LayoutMaxLines, 0)

EditorPollKey == PollKeyOf(EditKeys, EditorWords, EditorMaxLines, EditorMaxHistory)

TypingPollKey == PollKeyOf(EditKeys, TypingWords, TypingMaxLines, TypingMaxHistory)

\* no input is pending and the window is in no-delay mode: wgetch returns ERR
PollNoEvent ==
    /\ pc = "poll"
    /\ inputSource.nodelay
    /\ handleInput(ERR, m_termHeight, m_termWidth, AllOk)
    /\ pc' = "draw"
    /\ UNCHANGED <<appendCount, lifeVars>>

\* no input is pending and the window is in blocking mode: wgetch waits
PollBlock ==
    /\ pc = "poll"
    /\ ~inputSource.nodelay
    /\ pc' = "wait"
    /\ UNCHANGED <<screenVars, writes, runVars, layoutVars, editorVars, scrollVars,
                   alert, appendCount,
                   lifeVars>>

\* drawLayout, cursor placement and doupdate
Draw ==
    /\ pc = "draw"
    /\ LET d == drawLayout(m_resizeStatus, m_outputWin, m_outputBuffer, m_scrollOffset)
       IN  /\ painted' = d.painted
           /\ drawn' = d.drawn
           /\ flushes' = flushes + d.flushes + 1       \* doupdate() of run
    /\ writes' = {}
    /\ pc' = "sleep"
    /\ UNCHANGED <<runVars, layoutVars, editorVars, scrollVars, alert, appendCount,
                   lifeVars>>

\* sleep_for: the iteration is over
Sleep ==
    /\ pc = "sleep"
    /\ pc' = "test"
    /\ flushes' = 0
    /\ writes' = {}
    /\ UNCHANGED <<drawn, painted, runVars, layoutVars, editorVars, scrollVars, alert,
                   appendCount,
                   lifeVars>>

\* handleSignal on SIGINT or SIGTERM: instance->stop()
Signal ==
    /\ pc # "done"
    /\ handlers
    /\ g_consoleUIInstance # NullPtr
    /\ m_isRunning' = FALSE
    /\ lastStore' = "signal"
    /\ UNCHANGED <<pc, layoutVars, editorVars, scrollVars, alert, appendCount, screenVars,
                   writes,
                   lifeVars>>

----------------------------------------------------------------------------
(* The instance create() returns *)

\* the fields of the instance create() builds on a terminal of size d whose
\* allocations end as ok; the moves hand them on unchanged
Fields(d, ok) ==
    LET r == setupWindows(OutputHeightDefault, InputHeightDefault, d[1], d[2], ok)
        \* m_resizeStatus holds a value until line 67 assigns it
        screen == setupWindowsScreen(StatusOk, r, <<>>, 0)
    IN  /\ m_termHeight = d[1]
        /\ m_termWidth = d[2]
        /\ m_outputHeight = r.outputHeight
        /\ m_inputHeight = InputHeightDefault
        /\ m_outputBorderWin = r.outputBorderWin
        /\ m_inputBorderWin = r.inputBorderWin
        /\ m_outputWin = r.outputWin
        /\ m_inputWin = r.inputWin
        /\ m_resizeStatus = r.result
        /\ m_outputBuffer = <<>>
        /\ m_scrollOffset = 0
        /\ m_inputBuffer = <<>>
        /\ m_cursorPos = 0
        /\ m_commandHistory = <<>>
        /\ m_historyIndex = -1
        /\ m_isRunning = FALSE
        /\ pc = "start"
        /\ alert = FALSE
        /\ appendCount = 0
        /\ painted = screen.painted
        /\ drawn = <<>>
        /\ flushes = 0
        /\ writes = {}
        /\ lastStore = "init"

\* create() on a terminal of size d whose allocations end as ok, then the
\* move of the local instance into the returned value
Created(d, ok) == Fields(d, ok) /\ Returned

Init == \E d \in Dims, ok \in Allocs : Created(d, ok)

Next ==
    \/ RunStart
    \/ LoopTest
    \/ PollKey
    \/ PollResize
    \/ PollNoEvent
    \/ PollBlock
    \/ Draw
    \/ Sleep
    \/ Signal

Spec == Init /\ [][Next]_vars

----------------------------------------------------------------------------
(* Layout specification: the loop with resize events only *)

LayoutInit == \E d \in LayoutDims, ok \in LayoutAllocs : Created(d, ok)

LayoutNext ==
    \/ RunStart
    \/ LoopTest
    \/ LayoutPollResize
    \/ PollNoEvent
    \/ PollBlock
    \/ Draw
    \/ Sleep
    \/ Signal

SpecLayout == LayoutInit /\ [][LayoutNext]_vars

----------------------------------------------------------------------------
(* Line editor specification: the loop with key input on a usable terminal *)

EditorInit == \E d \in EditorDims : Created(d, AllOk)

EditorNext ==
    \/ RunStart
    \/ LoopTest
    \/ EditorPollKey
    \/ PollBlock
    \/ Draw
    \/ Sleep

SpecEditor == EditorInit /\ [][EditorNext]_vars

----------------------------------------------------------------------------
(* Free typing specification: the line editor with any short line over two letters *)

TypingNext ==
    \/ RunStart
    \/ LoopTest
    \/ TypingPollKey
    \/ PollBlock
    \/ Draw
    \/ Sleep

SpecTyping == EditorInit /\ [][TypingNext]_vars

----------------------------------------------------------------------------
(* Scrollback specification: addOutputMessage and the clear command alone *)

\* the n-th line the driver appends (0-based)
Line(n) == Format("line {}", <<n>>)

ScrollbackAppend ==
    /\ appendCount < MaxAppends
    /\ m_outputBuffer' = addOutputMessage(m_outputBuffer, Line(appendCount))
    /\ appendCount' = appendCount + 1
    /\ writes' = {Locked("m_outputBuffer")}
    /\ UNCHANGED <<pc, runVars, layoutVars, editorVars, m_scrollOffset, alert, screenVars,
                   lifeVars>>

ScrollbackClear ==
    /\ appendCount > 0
    /\ m_outputBuffer' = processCommand(m_outputBuffer, CmdClear).buffer
    /\ m_scrollOffset' = processCommand(m_outputBuffer, CmdClear).scrollOffset
    /\ appendCount' = 0
    /\ writes' = processCommand(m_outputBuffer, CmdClear).writes
    /\ UNCHANGED <<pc, runVars, layoutVars, editorVars, alert, screenVars,
                   lifeVars>>

ScrollbackNext == ScrollbackAppend \/ ScrollbackClear

SpecScrollback == EditorInit /\ [][ScrollbackNext]_vars

----------------------------------------------------------------------------
(* Scrolling specification: the loop on a usable terminal whose scrollback is
   empty or nearly full at the start, with lines appended through
   addOutputMessage while the loop polls, page keys, resizes between two
   heights and the clear command *)

ScrollInit ==
    \E n \in {0, MAX_BUFFER_SIZE - ScrollNear} :
        LET r == setupWindows(OutputHeightDefault, InputHeightDefault, 10, 40, AllOk)
        IN  /\ m_termHeight = 10
            /\ m_termWidth = 40
            /\ m_outputHeight = r.outputHeight
            /\ m_inputHeight = InputHeightDefault
            /\ m_outputBorderWin = r.outputBorderWin
            /\ m_inputBorderWin = r.inputBorderWin
            /\ m_outputWin = r.outputWin
            /\ m_inputWin = r.inputWin
            /\ m_resizeStatus = r.result
            /\ m_outputBuffer = [i \in 1..n |-> Line(i - 1)]
            /\ appendCount = n
            /\ m_scrollOffset = 0
            /\ m_inputBuffer = <<>>
            /\ m_cursorPos = 0
            /\ m_commandHistory = <<>>
            /\ m_historyIndex = -1
            /\ m_isRunning = FALSE
            /\ pc = "start"
            /\ alert = FALSE
            /\ painted = "layout"
            /\ drawn = <<>>
            /\ flushes = 0
            /\ writes = {}
            /\ lastStore = "init"
            /\ Returned

\* addOutputMessage called for the application while the loop polls without a key
ScrollAppend ==
    /\ pc = "poll"
    /\ \/ appendCount < ScrollNear
       \/ /\ appendCount >= MAX_BUFFER_SIZE - ScrollNear
          /\ appendCount < MAX_BUFFER_SIZE + ScrollNear
    /\ m_outputBuffer' = addOutputMessage(m_outputBuffer, Line(appendCount))
    /\ appendCount' = appendCount + 1
    /\ writes' = {Locked("m_outputBuffer")}
    /\ alert' = FALSE
    /\ pc' = "draw"
    /\ UNCHANGED <<runVars, layoutVars, editorVars, m_scrollOffset, screenVars,
                   lifeVars>>

ScrollPollKey ==
    /\ PollKeyOf(ScrollKeys, ScrollWords, MAX_BUFFER_SIZE, 1)
    /\ m_scrollOffset' <= ScrollMaxBack

ScrollPollResize == PollResizeOf(ScrollDims, {AllOk}, ScrollWords, MAX_BUFFER_SIZE, 1)

ScrollNext ==
    \/ RunStart
    \/ LoopTest
    \/ ScrollAppend
    \/ ScrollPollKey
    \/ ScrollPollResize
    \/ Draw
    \/ Sleep

SpecScroll == ScrollInit /\ [][ScrollNext]_vars

----------------------------------------------------------------------------
(* Visible slice specification: one draw pass for every buffer size, height of
   the output surface and scroll offset within the bounds *)

SliceInit ==
    \E n \in 0..MaxSliceLines, h \in 1..MaxSliceHeight, off \in 0..MaxSliceOffset :
        /\ m_outputBuffer = [i \in 1..n |-> Line(i - 1)]
        /\ m_scrollOffset = off
        /\ m_outputWin = newwin(h, m_minWidth - 2, TRUE)
        /\ m_outputBorderWin = newwin(h + 2, m_minWidth, TRUE)
        /\ m_inputWin = newwin(InputHeightDefault - 2, m_minWidth - 2, TRUE)
        /\ m_inputBorderWin = newwin(InputHeightDefault, m_minWidth, TRUE)
        /\ m_outputHeight = h + 2
        /\ m_inputHeight = InputHeightDefault
        /\ m_termHeight = h + 2 + InputHeightDefault
        /\ m_termWidth = m_minWidth
        /\ m_resizeStatus = StatusOk
        /\ m_inputBuffer = <<>>
        /\ m_cursorPos = 0
        /\ m_commandHistory = <<>>
        /\ m_historyIndex = -1
        /\ m_isRunning = TRUE
        /\ pc = "draw"
        /\ alert = FALSE
        /\ appendCount = n
        /\ painted = "none"
        /\ drawn = <<>>
        /\ flushes = 0
        /\ writes = {}
        /\ lastStore = "run"
        /\ Returned

SpecSlice == SliceInit /\ [][Draw]_vars

----------------------------------------------------------------------------
(* Lifecycle specification: create() step by step with the failures of its
   library calls, then the caller moving and destroying instances *)

LifecycleInit ==
    /\ \E d \in EditorDims : Fields(d, AllOk)
    /\ cpc = "setlocale"
    /\ tty = "shell"
    /\ created = "pending"
    /\ failures = {}
    /\ handlers = FALSE
    /\ g_consoleUIInstance = NullPtr
    /\ instances = [a \in Addr |-> "unborn"]
    /\ restores = 0

uiVars == <<pc, runVars, layoutVars, editorVars, scrollVars, alert, appendCount,
            screenVars, writes>>

\* std::setlocale(LC_ALL, ""): the body of the if is empty
CreateLocale ==
    /\ cpc = "setlocale"
    /\ \E ok \in BOOLEAN : failures' = IF ok THEN failures ELSE failures \cup {"locale"}
    /\ cpc' = "initscr"
    /\ UNCHANGED <<uiVars, tty, created, handlers, g_consoleUIInstance, instances, restores>>

\* initscr(), then nodelay, raw, noecho, keypad, curs_set
CreateInitscr ==
    /\ cpc = "initscr"
    /\ \E ok \in BOOLEAN :
          IF ok
          THEN /\ tty' = "raw"
               /\ cpc' = "has_colors"
               /\ UNCHANGED <<created, failures>>
          ELSE /\ created' = NCURSES_INIT_FAILED
               /\ failures' = failures \cup {"initscr"}
               /\ cpc' = "done"
               /\ UNCHANGED tty
    /\ UNCHANGED <<uiVars, handlers, g_consoleUIInstance, instances, restores>>

CreateHasColors ==
    /\ cpc = "has_colors"
    /\ \E ok \in BOOLEAN :
          IF ok
          THEN /\ cpc' = "start_color"
               /\ UNCHANGED <<tty, created, failures>>
          ELSE /\ tty' = "shell"                          \* endwin()
               /\ created' = COLOR_SUPPORT_MISSING
               /\ failures' = failures \cup {"colors"}
               /\ cpc' = "done"
    /\ UNCHANGED <<uiVars, handlers, g_consoleUIInstance, instances, restores>>

CreateStartColor ==
    /\ cpc = "start_color"
    /\ \E ok \in BOOLEAN :
          IF ok
          THEN /\ cpc' = "setup"
               /\ UNCHANGED <<tty, created, failures>>
          ELSE /\ tty' = "shell"                          \* endwin()
               /\ created' = CANNOT_CHANGE_COLOR
               /\ failures' = failures \cup {"colors"}
               /\ cpc' = "done"
    /\ UNCHANGED <<uiVars, handlers, g_consoleUIInstance, instances, restores>>

\* ConsoleUI ui(height, width); initializeNcurses (always true); setupWindows
CreateSetup ==
    /\ cpc = "setup"
    /\ instances' = [instances EXCEPT ![0] = "live"]
    /\ cpc' = "register"
    /\ UNCHANGED <<uiVars, tty, created, failures, handlers, g_consoleUIInstance, restores>>

\* g_consoleUIInstance = &ui; signal(SIGINT, ...); signal(SIGTERM, ...)
CreateRegister ==
    /\ cpc = "register"
    /\ g_consoleUIInstance' = 0
    /\ handlers' = TRUE
    /\ cpc' = "return"
    /\ UNCHANGED <<uiVars, tty, created, failures, instances, restores>>

\* terminal restore of cleanupNcurses when the destructor calls for it
cleanupNcurses(cleanup) ==
    IF cleanup /\ tty # "shell"                           \* isendwin() returns early
    THEN /\ tty' = "shell"
         /\ restores' = restores + 1
    ELSE UNCHANGED <<tty, restores>>

\* return std::move(ui): the move constructor builds the returned object
CreateReturn ==
    /\ cpc = "return"
    /\ instances' = [instances EXCEPT ![1] = "live"]
    /\ g_consoleUIInstance' = moveConstructor(g_consoleUIInstance, 1, 0)
    /\ cpc' = "unwind"
    /\ UNCHANGED <<uiVars, tty, created, failures, handlers, restores>>

\* the local `ui` goes out of scope
CreateUnwind ==
    /\ cpc = "unwind"
    /\ instances' = [instances EXCEPT ![0] = "dead"]
    /\ g_consoleUIInstance' = destructor(g_consoleUIInstance, 0).g
    /\ cleanupNcurses(destructor(g_consoleUIInstance, 0).cleanup)
    /\ created' = "instance"
    /\ cpc' = "done"
    /\ UNCHANGED <<uiVars, failures, handlers>>

\* the caller builds a new object from a live one: ConsoleUI a(std::move(b))
MoveConstruct ==
    /\ cpc = "done"
    /\ \E a, b \in Addr :
          /\ instances[a] = "unborn"
          /\ instances[b] = "live"
          /\ instances' = [instances EXCEPT ![a] = "live"]
          /\ g_consoleUIInstance' = moveConstructor(g_consoleUIInstance, a, b)
    /\ UNCHANGED <<uiVars, cpc, tty, created, failures, handlers, restores>>

\* the caller assigns one live object to another: a = std::move(b)
MoveAssign ==
    /\ cpc = "done"
    /\ \E a, b \in Addr :
          /\ instances[a] = "live"
          /\ instances[b] = "live"
          /\ g_consoleUIInstance' = moveAssignment(g_consoleUIInstance, a, b)
    /\ UNCHANGED <<uiVars, cpc, tty, created, failures, handlers, instances, restores>>

\* an object of the caller is destroyed
Destroy ==
    /\ cpc = "done"
    /\ \E a \in Addr :
          /\ instances[a] = "live"
          /\ instances' = [instances EXCEPT ![a] = "dead"]
          /\ g_consoleUIInstance' = destructor(g_consoleUIInstance, a).g
          /\ cleanupNcurses(destructor(g_consoleUIInstance, a).cleanup)
    /\ UNCHANGED <<uiVars, cpc, created, failures, handlers>>

LifecycleNext ==
    \/ CreateLocale
    \/ CreateInitscr
    \/ CreateHasColors
    \/ CreateStartColor
    \/ CreateSetup
    \/ CreateRegister
    \/ CreateReturn
    \/ CreateUnwind
    \/ MoveConstruct
    \/ MoveAssign
    \/ Destroy

SpecLifecycle == LifecycleInit /\ [][LifecycleNext]_vars

----------------------------------------------------------------------------
(* Claims *)

\* C1: over any sequence of appends the scrollback never holds more than 1000
\* lines, and it holds exactly the last min(N, 1000) of the N lines appended
\* since the last clear, in insertion order: once N > 1000 its oldest line
\* is the (N-1000)-th appended line (0-based).
C1_ScrollbackCap ==
    /\ Len(m_outputBuffer) <= 1000
    /\ Len(m_outputBuffer) = Min(appendCount, 1000)
    /\ \A i \in 1..Len(m_outputBuffer) :
          m_outputBuffer[i] = Line(appendCount - Len(m_outputBuffer) + i - 1)

C1_Witness ==
    /\ appendCount > 1000
    /\ Len(m_outputBuffer) = 1000
    /\ m_outputBuffer[1] = Line(appendCount - 1000)

\* C2: whenever the layout is Ready, 0 <= ScrollOffset <=
\* max(0, bufferSize - viewportHeight), the viewport being the output
\* content surface.
C2_ScrollOffsetClamped ==
    Ready => /\ 0 <= m_scrollOffset
             /\ m_scrollOffset <= Max(0, Len(m_outputBuffer) - m_outputWin.h)

\* a step of the poll phase: wgetch has returned and handleInput has run
PollStep == pc \in {"poll", "wait"} /\ pc' = "draw"

\* C3 as stated: once the flag is false in a running loop, no further poll
\* phase runs and no further input event is processed.
C3_NoPollAfterStop ==
    [][(~m_isRunning /\ pc \in {"test", "poll", "wait", "draw", "sleep"}) => ~PollStep]_vars

\* C3 as amended: once the flag is false in a running loop it stays false, the
\* loop enters no poll phase any more and the next continuation test ends
\* it; only the poll of the iteration that was already past its test runs.
C3_StopEndsLoop ==
    [][(~m_isRunning /\ pc \in {"test", "poll", "wait", "draw", "sleep"}) =>
          /\ ~m_isRunning'
          /\ pc = "test" => pc' \in {"test", "done"}     \* "test": a further signal arrives
          /\ pc' \in {"poll", "wait"} => pc \in {"poll", "wait"}]_vars

C3_Witness ==
    /\ pc = "done"
    /\ ~m_isRunning
    /\ m_outputBuffer # <<>>
    /\ m_outputBuffer[Len(m_outputBuffer)] = Format("> {}", CmdExit)

\* C4: the poll phase never waits for input: with no input pending wgetch
\* returns at once, in both layout states.
C4_PollNeverWaits == pc # "wait"

Held == {m_outputBorderWin.held, m_outputWin.held, m_inputBorderWin.held, m_inputWin.held}

\* C5: after every layout computation the four surfaces are all held or none
\* is; all four exactly when the state is Ready, none when it is TooSmall.
C5_AllOrNone ==
    /\ Ready <=> Held = {TRUE}
    /\ TooSmall => Held = {FALSE}

\* a step that handles a resize event in the layout specification
LayoutResizeStep ==
    /\ pc \in {"poll", "wait"}
    /\ \E d \in LayoutDims, ok \in LayoutAllocs : handleInput(KEY_RESIZE, d[1], d[2], ok)

\* C6: a resize event appends the "resized" notice exactly once if the layout
\* was TooSmall before and is Ready after it, and appends nothing otherwise.
C6_ResizeNotice ==
    [][LayoutResizeStep =>
          m_outputBuffer' = IF TooSmall /\ Ready'
                            THEN Append(m_outputBuffer, MsgResized)
                            ELSE m_outputBuffer]_vars

C6_Witness ==
    /\ Ready
    /\ pc = "draw"
    /\ Len(SelectSeq(m_outputBuffer, LAMBDA l : l = MsgResized)) = 2

\* C7: whenever the layout is Ready, terminalHeight >= 10, terminalWidth >= 40,
\* inputHeight = 3 and outputHeight + inputHeight = terminalHeight (24 rows give
\* outputHeight 21); whenever the last computed size is below 10 rows or 40
\* columns the layout is TooSmall.
C7_Geometry ==
    /\ Ready => /\ m_termHeight >= 10
                /\ m_termWidth >= 40
                /\ m_inputHeight = 3
                /\ m_outputHeight + m_inputHeight = m_termHeight
                /\ m_termHeight = 24 => m_outputHeight = 21
    /\ (m_termHeight < 10 \/ m_termWidth < 40) => TooSmall

C7_Witness ==
    /\ pc = "draw"
    /\ Ready
    /\ m_termHeight = 24 /\ m_termWidth = 80
    /\ m_outputHeight = 21
    /\ MsgResized \in {m_outputBuffer[i] : i \in 1..Len(m_outputBuffer)}

\* a step that handles a key other than the resize notification
KeyStep ==
    /\ pc \in {"poll", "wait"}
    /\ \E ch \in EditKeys \cup Chars(Words) :
          handleInput(ch, m_termHeight, m_termWidth, AllOk)

\* C8: while the layout is TooSmall every input event other than a resize
\* is rejected: text, cursor, History, historyIndex, output buffer,
\* ScrollOffset, RunningFlag and the layout stay as they are, and the alert rings.
C8_RejectedWhileTooSmall ==
    [][(TooSmall /\ KeyStep) =>
          /\ UNCHANGED <<editorVars, scrollVars, m_isRunning, layoutVars>>
          /\ alert']_vars

C8_Witness ==
    /\ TooSmall
    /\ alert
    /\ pc = "draw"
    /\ m_inputBuffer # <<>>
    /\ m_commandHistory # <<>>
    /\ m_scrollOffset > 0

\* a step that submits a non-empty line in the line editor specification
SubmitStep ==
    /\ pc \in {"poll", "wait"}
    /\ Ready
    /\ m_inputBuffer # <<>>
    /\ handleInput(KEY_ENTER, m_termHeight, m_termWidth, AllOk)

C9_NoExitNoRepeat ==
    /\ \A i \in 1..Len(m_commandHistory) : m_commandHistory[i] # CmdExit
    /\ \A i \in 1..(Len(m_commandHistory) - 1) :
          m_commandHistory[i] # m_commandHistory[i + 1]

\* C9: History never holds "exit" nor two equal adjacent entries; a submitted
\* non-empty line is pushed unless it is "exit" or equals the last entry.
C9_History ==
    /\ []C9_NoExitNoRepeat
    /\ [][SubmitStep =>
            m_commandHistory' =
                IF \/ m_inputBuffer = CmdExit
                   \/ /\ m_commandHistory # <<>>
                      /\ m_commandHistory[Len(m_commandHistory)] = m_inputBuffer
                THEN m_commandHistory
                ELSE Append(m_commandHistory, m_inputBuffer)]_vars

\* "a" was submitted twice and is in History once
C9_Witness ==
    /\ m_commandHistory = << <<97>> >>
    /\ Len(SelectSeq(m_outputBuffer, LAMBDA l : l = Format("> {}", <<97>>))) = 2

UpStep ==
    /\ pc \in {"poll", "wait"}
    /\ Ready
    /\ handleInput(KEY_UP, m_termHeight, m_termWidth, AllOk)

DownStep ==
    /\ pc \in {"poll", "wait"}
    /\ Ready
    /\ handleInput(KEY_DOWN, m_termHeight, m_termWidth, AllOk)

\* the entry historyIndex selects, and the line showing it with the cursor at its end
Selected == m_commandHistory[m_historyIndex + 1]
ShowsSelected == m_inputBuffer = Selected /\ m_cursorPos = Len(Selected)

\* C10: with a non-empty History, up when not browsing selects the newest
\* entry and up while browsing the next older one, staying at index 0; down
\* while browsing selects the next newer one, down at the newest entry leaves
\* browsing (historyIndex -1) with an empty line, down when not browsing does
\* nothing; a selected entry is shown with the cursor at its end; historyIndex
\* is always -1 or an index into History.
C10_HistoryNavigation ==
    /\ [](m_historyIndex \in -1..(Len(m_commandHistory) - 1))
    /\ [][(UpStep /\ m_commandHistory # <<>>) =>
            /\ m_historyIndex' = IF m_historyIndex = -1 THEN Len(m_commandHistory) - 1
                                 ELSE Max(0, m_historyIndex - 1)
            /\ ShowsSelected'
            /\ UNCHANGED m_commandHistory]_vars
    /\ [][DownStep =>
            /\ m_historyIndex = -1 => UNCHANGED editorVars
            /\ (m_historyIndex # -1 /\ m_historyIndex < Len(m_commandHistory) - 1) =>
                  /\ m_historyIndex' = m_historyIndex + 1
                  /\ ShowsSelected'
            /\ m_historyIndex = Len(m_commandHistory) - 1 /\ m_historyIndex # -1 =>
                  /\ m_historyIndex' = -1
                  /\ m_inputBuffer' = <<>>
                  /\ m_cursorPos' = 0
            /\ UNCHANGED m_commandHistory]_vars

\* browsing a History of three entries has reached the oldest one
C10_Witness ==
    /\ Len(m_commandHistory) = 3
    /\ m_historyIndex = 0
    /\ m_inputBuffer = m_commandHistory[1]
    /\ m_cursorPos = Len(m_inputBuffer)
    /\ pc = "draw"

\* a step that handles enter on an empty line in the line editor specification
EmptyEnterStep ==
    /\ pc \in {"poll", "wait"}
    /\ Ready
    /\ m_inputBuffer = <<>>
    /\ handleInput(KEY_ENTER, m_termHeight, m_termWidth, AllOk)

\* what one run of the command handler on the line leaves after its echo
Handled(echoed, command) ==
    IF command = CmdClear THEN <<>>
    ELSE IF command = CmdExit THEN echoed
    ELSE IF command = CmdHelp THEN Append(echoed, MsgHelp)
    ELSE Append(echoed, Format("Unknown: '{}'", command))

\* C11: enter in Ready state with a non-empty line hands exactly that text to
\* command handling once (one echo line, one run of the command) and leaves
\* the text empty, the cursor at 0, historyIndex at -1 and ScrollOffset at 0;
\* enter with an empty line changes no state: no submission, no History
\* entry, no scrollback line.
C11_Enter ==
    /\ [][SubmitStep =>
            /\ m_outputBuffer' =
                  Handled(Append(m_outputBuffer, Format("> {}", m_inputBuffer)), m_inputBuffer)
            /\ m_isRunning' = (m_isRunning /\ m_inputBuffer # CmdExit)
            /\ m_inputBuffer' = <<>>
            /\ m_cursorPos' = 0
            /\ m_historyIndex' = -1
            /\ m_scrollOffset' = 0
            /\ UNCHANGED layoutVars]_vars
    /\ [][EmptyEnterStep =>
            UNCHANGED <<editorVars, scrollVars, m_isRunning, layoutVars>>]_vars

\* "b" was submitted from a scrolled-back view after browsing History
C11_Witness ==
    /\ pc = "draw"
    /\ m_inputBuffer = <<>> /\ m_cursorPos = 0
    /\ m_historyIndex = -1 /\ m_scrollOffset = 0
    /\ m_commandHistory = << <<97>>, <<98>> >>
    /\ Len(m_outputBuffer) >= 2
    /\ m_outputBuffer[Len(m_outputBuffer) - 1] = Format("> {}", <<98>>)
    /\ m_outputBuffer[Len(m_outputBuffer)] = Format("Unknown: '{}'", <<98>>)

\* a step of the free typing specification that handles the key ch
TypingStep(ch) ==
    /\ pc \in {"poll", "wait"}
    /\ handleInput(ch, m_termHeight, m_termWidth, AllOk)

\* C20: the cursor always satisfies 0 <= cursor <= length(text), whatever
\* inserts, backspaces, deletes, cursor moves, History moves and enters came
\* before; an insert puts the character at the cursor and advances the cursor
\* by one; backspace at cursor 0 and delete at cursor = length change nothing.
C20_Cursor ==
    /\ [](0 <= m_cursorPos /\ m_cursorPos <= Len(m_inputBuffer))
    /\ [][\A ch \in TypingAlphabet : TypingStep(ch) =>
            /\ Len(m_inputBuffer') = Len(m_inputBuffer) + 1
            /\ m_inputBuffer'[m_cursorPos + 1] = ch
            /\ \A i \in 1..Len(m_inputBuffer) :
                  m_inputBuffer'[IF i <= m_cursorPos THEN i ELSE i + 1] = m_inputBuffer[i]
            /\ m_cursorPos' = m_cursorPos + 1]_vars
    /\ [][(TypingStep(KEY_BACKSPACE) /\ m_cursorPos = 0) =>
            UNCHANGED <<editorVars, scrollVars, layoutVars, m_isRunning>>]_vars
    /\ [][(TypingStep(KEY_DC) /\ m_cursorPos = Len(m_inputBuffer)) =>
            UNCHANGED <<editorVars, scrollVars, layoutVars, m_isRunning>>]_vars

\* the line "b" recalled from History has become "ab" with the cursor between
\* the two letters
C20_Witness ==
    /\ pc = "draw"
    /\ m_commandHistory = << <<97, 97>>, <<98>> >>
    /\ m_historyIndex = 1
    /\ m_inputBuffer = <<97, 98>>
    /\ m_cursorPos = 1

\* C12: the slice a draw pass shows for (buffer, viewportHeight, scrollOffset)
\* is exactly the buffer lines with 0-based indices from
\* max(0, bufferSize - viewportHeight - scrollOffset) up to but excluding
\* max(0, bufferSize - scrollOffset), in buffer order and never more than
\* viewportHeight lines (10 lines, height 4: offset 0 shows lines 6..9, offset 3
\* shows lines 3..6); it is a function of these three inputs, and the draw
\* pass leaves buffer and offset as they are.
C12_VisibleSlice ==
    /\ [](pc = "sleep" =>
            LET bufferSize == Len(m_outputBuffer)
                viewportHeight == m_outputWin.h
                from == Max(0, bufferSize - viewportHeight - m_scrollOffset)
                to == Max(0, bufferSize - m_scrollOffset)
            IN  /\ drawn = [k \in 1..(to - from) |-> m_outputBuffer[from + k]]
                /\ Len(drawn) <= viewportHeight
                /\ (bufferSize = 10 /\ viewportHeight = 4 /\ m_scrollOffset = 0) =>
                      drawn = <<Line(6), Line(7), Line(8), Line(9)>>
                /\ (bufferSize = 10 /\ viewportHeight = 4 /\ m_scrollOffset = 3) =>
                      drawn = <<Line(3), Line(4), Line(5), Line(6)>>)
    /\ [][(pc = "draw" /\ pc' = "sleep") => UNCHANGED scrollVars]_vars

C12_Witness ==
    /\ pc = "sleep"
    /\ Len(m_outputBuffer) = 10
    /\ m_outputWin.h = 4
    /\ m_scrollOffset = 3
    /\ drawn = <<Line(3), Line(4), Line(5), Line(6)>>

\* C13: every loop iteration, also one that handles a resize event and one
\* drawn in TooSmall state, performs exactly one flush to the physical terminal;
\* its other surface updates are only staged.
C13_OneFlush == pc = "sleep" => flushes = 1

\* C19: the too-small diagnostic is painted only when the outcome of the most
\* recent layout computation is TooSmall and the normal layout only when it
\* is Ready, in the paint inside the layout computation of a resize as well as
\* in the draw phase of the loop.
C19_PaintMatchesOutcome ==
    /\ painted = "diagnostic" => TooSmall
    /\ painted = "layout" => Ready

\* C17: every write to the output buffer or to ScrollOffset (append, clear,
\* page-up, page-down, the reset of ScrollOffset on submit) is performed while
\* holding the output lock, the lock the render pass holds while it reads the
\* visible slice.
C17_WritesUnderLock == \A w \in writes : w.locked

\* C16: in every reachable state, after any appends with eviction, clears,
\* scrolling, submits and resizes that change the height of the viewport,
\* 0 <= ScrollOffset <= bufferSize, and the draw pass reads only buffer
\* indices i with 0 <= i < bufferSize, its first index not above its last;
\* page-up never yields a negative offset (10 lines, height 4: the offset
\* clamps to 6).
C16_ScrollInRange ==
    LET bufferSize == Len(m_outputBuffer)
        idx == readIndices(bufferSize, m_outputWin.h, m_scrollOffset)
    IN  /\ 0 <= m_scrollOffset
        /\ m_scrollOffset <= bufferSize
        /\ firstLineIdx(bufferSize, m_outputWin.h, m_scrollOffset)
              <= lastLineIdx(bufferSize, m_scrollOffset)
        /\ \A k \in 1..Len(idx) : 0 <= idx[k] /\ idx[k] < bufferSize
        /\ Min(MaxScroll(10, 4), 0 + 100) = 6

\* lines were evicted from a full scrollback that is shown scrolled back on
\* the higher of the two viewports
C16_Witness ==
    /\ pc = "sleep"
    /\ Len(m_outputBuffer) = MAX_BUFFER_SIZE
    /\ appendCount > MAX_BUFFER_SIZE
    /\ m_outputBuffer[1] = Line(appendCount + 1 - MAX_BUFFER_SIZE)
    /\ m_scrollOffset > 0
    /\ m_outputWin.h = 6
    /\ Len(drawn) = 6

\* C14: create() aborts with a typed failure and no UI instance whenever
\* locale activation, the library initialization that enters raw/no-echo mode
\* or the color capability checks fail, and then returns with the terminal
\* not in raw mode; only if all of them succeed does it go on to the layout
\* and the signal registration.
C14_StartupAborts ==
    /\ (cpc = "done" /\ failures # {}) =>
          /\ created \in InitErrors
          /\ tty # "raw"
          /\ \A a \in Addr : instances[a] # "live"
          /\ g_consoleUIInstance = NullPtr
    /\ (cpc \in {"setup", "register", "return", "unwind"} \/ handlers) => failures = {}

\* C15: over any sequence of create, move constructions, move assignments
\* and destructions the terminal restore runs exactly once: never twice, and
\* once every instance is destroyed it has run.
C15_RestoredOnce ==
    /\ restores <= 1
    /\ (created = "instance" /\ \A a \in Addr : instances[a] # "live") => restores = 1

\* C18: a stop request the signal handler delivers at any point after the
\* registration in create(), also before run() starts its first iteration, is
\* not lost: the flag it stored stays false until the loop has ended.
C18_StopNotLost == [][lastStore = "signal" => ~m_isRunning']_vars

====
